---- MODULE Spec2Model ----
(***************************************************************************)
(* Model of imagefield/processing.py: the processor registry, the handler  *)
(* builder, the built-in processors, the crop geometry and the render      *)
(* driver process_image.                                                   *)
(*                                                                         *)
(* Numbers.  The crop code computes with Python floats.  The model uses    *)
(* exact integer arithmetic: int(a / b * c + 0.5) is                       *)
(* (2*a*c + b) \div (2*b) and int(size * (n/d)) is (size*n) \div d.  For   *)
(* every input the specifications below draw, the IEEE double evaluation   *)
(* of the source expressions gives the same integers.                      *)
(***************************************************************************)
EXTENDS Integers, Sequences, FiniteSets, TLC

\* ------------------------------------------------------------------ bounds
MaxDim == 5
PDen == 4
MaxSpecs == 2

\* sizes of the worked examples of the crop algorithm
Dims == 1..MaxDim
\* a fraction n/d in [0,1] is the pair <<n, d>>
Fractions == {<<k, PDen>> : k \in 0..PDen} \cup {<<1, 100>>}

\* ------------------------------------------------------------- crop geometry

\* int(size * fraction): truncation of a non-negative product
TruncMul(size, frac) == (size * frac[1]) \div frac[2]

\* as RoundHalfUp without the + 0.5: truncation
RoundDown(num, den, factor) == (num * factor) \div den

\* int(num / den * factor + 0.5) for positive integers
RoundHalfUp(num, den, factor) == (2 * num * factor + den) \div (2 * den)

\* as crop_box, but a window that leaves the image is cut at the edge
\* instead of being moved back inside
crop_box_shrinking(size, target, ppoi) ==
  LET width == target[1]
      height == target[2]
      ppoi_x_axis == TruncMul(size[1], ppoi[1])
      ppoi_y_axis == TruncMul(size[2], ppoi[2])
      wider == size[1] * height >= width * size[2]
  IN IF wider
     THEN LET orig_crop_width == (2 * width * size[2] + height) \div (2 * height)
              left0 == ppoi_x_axis - (orig_crop_width \div 2)
              right0 == left0 + orig_crop_width
          IN [left |-> IF left0 < 0 THEN 0 ELSE left0, top |-> 0,
              right |-> IF right0 > size[1] THEN size[1] ELSE right0,
              bottom |-> size[2],
              orig_crop_width |-> orig_crop_width,
              orig_crop_height |-> size[2]]
     ELSE LET orig_crop_height == (2 * height * size[1] + width) \div (2 * width)
              top0 == ppoi_y_axis - (orig_crop_height \div 2)
              bottom0 == top0 + orig_crop_height
          IN [left |-> 0, top |-> IF top0 < 0 THEN 0 ELSE top0,
              right |-> size[1],
              bottom |-> IF bottom0 > size[2] THEN size[2] ELSE bottom0,
              orig_crop_width |-> size[1],
              orig_crop_height |-> orig_crop_height]

\* as crop_box, but the window is centred on the image and the point of
\* interest is ignored
crop_box_centred(size, target, ppoi) ==
  LET width == target[1]
      height == target[2]
      ppoi_x_axis == size[1] \div 2
      ppoi_y_axis == size[2] \div 2
      wider == size[1] * height >= width * size[2]
  IN IF wider
     THEN LET orig_crop_width == (2 * width * size[2] + height) \div (2 * height)
              left0 == ppoi_x_axis - (orig_crop_width \div 2)
              right0 == left0 + orig_crop_width
              left == IF left0 < 0 THEN 0
                      ELSE IF right0 > size[1] THEN size[1] - orig_crop_width
                      ELSE left0
          IN [left |-> left, top |-> 0, right |-> left + orig_crop_width,
              bottom |-> size[2],
              orig_crop_width |-> orig_crop_width,
              orig_crop_height |-> size[2]]
     ELSE LET orig_crop_height == (2 * height * size[1] + width) \div (2 * width)
              top0 == ppoi_y_axis - (orig_crop_height \div 2)
              bottom0 == top0 + orig_crop_height
              top == IF top0 < 0 THEN 0
                     ELSE IF bottom0 > size[2] THEN size[2] - orig_crop_height
                     ELSE top0
          IN [left |-> 0, top |-> top, right |-> size[1],
              bottom |-> top + orig_crop_height,
              orig_crop_width |-> size[1],
              orig_crop_height |-> orig_crop_height]

\* The rectangle the crop processor hands to image.crop, with the crop width
\* and height computed before clamping.  size = image.size, target = args[0],
\* ppoi = context.ppoi.
crop_box(size, target, ppoi) ==
  LET width == target[1]
      height == target[2]
      ppoi_x_axis == TruncMul(size[1], ppoi[1])
      ppoi_y_axis == TruncMul(size[2], ppoi[2])
      \* orig_aspect_ratio >= crop_aspect_ratio, cross-multiplied
      wider == size[1] * height >= width * size[2]
  IN IF wider
     THEN LET orig_crop_width == RoundHalfUp(width, height, size[2])
              orig_crop_height == size[2]
              left0 == ppoi_x_axis - (orig_crop_width \div 2)
              right0 == left0 + orig_crop_width
              left == IF left0 < 0 THEN 0
                      ELSE IF right0 > size[1] THEN size[1] - orig_crop_width
                      ELSE left0
              right == IF left0 < 0 THEN 0 + orig_crop_width
                       ELSE IF right0 > size[1] THEN size[1]
                       ELSE right0
          IN [left |-> left, top |-> 0, right |-> right,
              bottom |-> orig_crop_height,
              orig_crop_width |-> orig_crop_width,
              orig_crop_height |-> orig_crop_height]
     ELSE LET orig_crop_width == size[1]
              orig_crop_height == RoundHalfUp(height, width, size[1])
              top0 == ppoi_y_axis - (orig_crop_height \div 2)
              bottom0 == top0 + orig_crop_height
              top == IF top0 < 0 THEN 0
                     ELSE IF bottom0 > size[2] THEN size[2] - orig_crop_height
                     ELSE top0
              bottom == IF top0 < 0 THEN 0 + orig_crop_height
                        ELSE IF bottom0 > size[2] THEN size[2]
                        ELSE bottom0
          IN [left |-> 0, top |-> top, right |-> orig_crop_width,
              bottom |-> bottom,
              orig_crop_width |-> orig_crop_width,
              orig_crop_height |-> orig_crop_height]

\* ------------------------------------------------------------------ images
(***************************************************************************)
(* A decoded image, as far as the processors look at it:                   *)
(*   format        image.format; "None" for an image the library made      *)
(*   mode          image.mode                                              *)
(*   size          image.size = <<width, height>>                          *)
(*   exif          -1: the object has no _getexif attribute; 0: _getexif() *)
(*                 is empty; otherwise the value of tag 274                *)
(*   palette       image.getpalette(), "none" when there is none           *)
(*   transparency  image.info['transparency'], -1 when the key is absent   *)
(*   icc           image.info.get('icc_profile'), "none" for None          *)
(*   pixels        the pixel operations applied since decoding             *)
(* The codec library is not part of the repository.  Its methods that      *)
(* return a new image (transpose, convert, copy, crop, resize) return a    *)
(* plain image: format "None" and no _getexif; info is carried over.       *)
(* Whether a resampled or cropped image keeps its palette is the codec's   *)
(* choice, the variable codecKeepsPalette.                                 *)
(***************************************************************************)
VARIABLE codecKeepsPalette

PixelOp(op, arg) == [op |-> op, arg |-> arg]

ROTATE_90 == 90
ROTATE_180 == 180
ROTATE_270 == 270

\* image.transpose(rotation)
Transpose(image, rotation) ==
  [image EXCEPT !.format = "None", !.exif = -1,
                !.size = IF rotation = ROTATE_180 THEN image.size
                         ELSE <<image.size[2], image.size[1]>>,
                !.pixels = Append(image.pixels, PixelOp("transpose", <<rotation>>))]

\* image.convert('RGB')
Convert(image, mode) ==
  [image EXCEPT !.format = "None", !.exif = -1, !.mode = mode,
                !.palette = "none",
                !.pixels = Append(image.pixels, PixelOp("convert", <<>>))]

\* image.copy()
Copy(image) == [image EXCEPT !.format = "None", !.exif = -1]

\* the palette of a resampled or cropped image
Resampled(palette) == IF codecKeepsPalette THEN palette ELSE "none"

Max(a, b) == IF a >= b THEN a ELSE b

\* the size image.thumbnail(box) resizes to: fit inside box, keep the aspect
\* ratio, never enlarge
ThumbnailSize(size, box) ==
  LET x1 == IF size[1] > box[1] THEN box[1] ELSE size[1]
      y1 == IF size[1] > box[1]
            THEN Max((size[2] * box[1]) \div size[1], 1) ELSE size[2]
      x2 == IF y1 > box[2] THEN Max((x1 * box[2]) \div y1, 1) ELSE x1
      y2 == IF y1 > box[2] THEN box[2] ELSE y1
  IN <<x2, y2>>

\* image.thumbnail(box, Image.BICUBIC), in place
Thumbnail(image, box) ==
  LET size == ThumbnailSize(image.size, box)
  IN IF size = image.size THEN image
     ELSE [image EXCEPT !.size = size, !.palette = Resampled(image.palette),
                        !.pixels = Append(image.pixels, PixelOp("thumbnail", size))]

\* image.crop((left, top, right, bottom))
CropImage(image, box) ==
  [image EXCEPT !.format = "None", !.exif = -1,
                !.size = <<box[3] - box[1], box[4] - box[2]>>,
                !.palette = Resampled(image.palette),
                !.pixels = Append(image.pixels, PixelOp("crop", box))]

\* image.resize(size, Image.BICUBIC)
Resize(image, size) ==
  [image EXCEPT !.format = "None", !.exif = -1, !.size = size,
                !.palette = Resampled(image.palette),
                !.pixels = Append(image.pixels, PixelOp("resize", size))]

\* image.putpalette(palette), in place
PutPalette(image, palette) == [image EXCEPT !.palette = palette]

\* ---------------------------------------------------------------- context
\* context.save_kwargs is a dict: a function on the keys that are set
EmptyDict == [k \in {} |-> 0]

SetItem(dict, key, value) ==
  [k \in DOMAIN dict \cup {key} |-> IF k = key THEN value ELSE dict[k]]

SetKwarg(context, key, value) ==
  [context EXCEPT !.save_kwargs = SetItem(context.save_kwargs, key, value)]

\* ------------------------------------------------------------- processors
(***************************************************************************)
(* A handler is the chain of closures build_handler nests, outermost       *)
(* first: <<>> is the innermost handler, which returns its arguments, and   *)
(* each element [impl, args] is the processor closure of one factory call, *)
(* whose get_image is the rest of the sequence.  Calling a handler gives   *)
(* [ok, error, image, context, trace]; trace lists, in the order they      *)
(* were entered, the processors and the image each received.               *)
(***************************************************************************)
RECURSIVE CallHandler(_, _, _, _)

Raise(error, image, context, trace) ==
  [ok |-> FALSE, error |-> error, image |-> image, context |-> context,
   trace |-> trace]

\* as autorotate, but with empty EXIF data the image is returned without
\* calling get_image
autorotate_returning(get_image, args, image, context, trace) ==
  IF image.exif = -1
  THEN CallHandler(get_image, image, context, trace)
  ELSE IF image.exif = 0
  THEN [ok |-> TRUE, error |-> "none", image |-> image, context |-> context,
        trace |-> trace]
  ELSE LET orientation == image.exif
           rotation == CASE orientation = 3 -> ROTATE_180
                         [] orientation = 6 -> ROTATE_270
                         [] orientation = 8 -> ROTATE_90
                         [] OTHER -> 0
       IN IF rotation # 0
          THEN CallHandler(get_image, Transpose(image, rotation), context, trace)
          ELSE CallHandler(get_image, image, context, trace)

autorotate(get_image, args, image, context, trace) ==
  IF image.exif = -1
  THEN CallHandler(get_image, image, context, trace)
  ELSE IF image.exif = 0
  THEN CallHandler(get_image, image, context, trace)
  ELSE LET orientation == image.exif
           rotation == CASE orientation = 3 -> ROTATE_180
                         [] orientation = 6 -> ROTATE_270
                         [] orientation = 8 -> ROTATE_90
                         [] OTHER -> 0
       IN IF rotation # 0
          THEN CallHandler(get_image, Transpose(image, rotation), context, trace)
          ELSE CallHandler(get_image, image, context, trace)

preprocess_jpeg(get_image, args, image, context, trace) ==
  IF image.format = "JPEG"
  THEN LET context1 == SetKwarg(SetKwarg(context, "quality", 90),
                                "progressive", TRUE)
           image1 == IF image.mode # "RGB" THEN Convert(image, "RGB") ELSE image
       IN CallHandler(get_image, image1, context1, trace)
  ELSE CallHandler(get_image, image, context, trace)

preprocess_gif(get_image, args, image, context, trace) ==
  IF image.format = "GIF"
  THEN LET context1 == IF image.transparency # -1
                       THEN SetKwarg(context, "transparency", image.transparency)
                       ELSE context
           palette == image.palette
           r == CallHandler(get_image, image, context1, trace)
       IN IF r.ok THEN [r EXCEPT !.image = PutPalette(r.image, palette)] ELSE r
  ELSE CallHandler(get_image, image, context, trace)

preserve_icc_profile(get_image, args, image, context, trace) ==
  CallHandler(get_image, image, SetKwarg(context, "icc_profile", image.icc),
              trace)

thumbnail(get_image, args, image, context, trace) ==
  IF Len(args) = 0
  THEN Raise("IndexError", Copy(image), context, trace)
  ELSE CallHandler(get_image, Thumbnail(Copy(image), args[1]), context, trace)

crop(get_image, args, image, context, trace) ==
  LET b == crop_box(image.size, args[1], context.ppoi)
      cropped_image == CropImage(image, <<b.left, b.top, b.right, b.bottom>>)
  IN CallHandler(get_image, Resize(cropped_image, args[1]), context, trace)

\* processors a caller registers: one that raises, one that only delegates
raising(get_image, args, image, context, trace) ==
  Raise("ProcessingError", image, context, trace)

passing(get_image, args, image, context, trace) ==
  CallHandler(get_image, image, context, trace)

CallHandler(handler, image, context, trace) ==
  IF handler = <<>>
  THEN [ok |-> TRUE, error |-> "none", image |-> image, context |-> context,
        trace |-> Append(trace, [proc |-> "handler", image |-> image])]
  ELSE LET impl == Head(handler).impl
           args == Head(handler).args
           get_image == Tail(handler)
           entered == Append(trace, [proc |-> impl, image |-> image])
       IN CASE impl = "autorotate" ->
                 autorotate(get_image, args, image, context, entered)
            [] impl = "preprocess_jpeg" ->
                 preprocess_jpeg(get_image, args, image, context, entered)
            [] impl = "preprocess_gif" ->
                 preprocess_gif(get_image, args, image, context, entered)
            [] impl = "preserve_icc_profile" ->
                 preserve_icc_profile(get_image, args, image, context, entered)
            [] impl = "thumbnail" ->
                 thumbnail(get_image, args, image, context, entered)
            [] impl = "crop" ->
                 crop(get_image, args, image, context, entered)
            [] impl = "raising" ->
                 raising(get_image, args, image, context, entered)
            [] impl = "passing" ->
                 passing(get_image, args, image, context, entered)

\* ---------------------------------------------------------------- registry
VARIABLE PROCESSORS

BuiltIns == {"autorotate", "preprocess_jpeg", "preprocess_gif",
             "preserve_icc_profile", "thumbnail", "crop"}

\* a function to register: fn.__name__ and the behaviour of fn
Fn(name, impl) == [name |-> name, impl |-> impl]

\* PROCESSORS[fn.__name__] = fn
register(fn) ==
  PROCESSORS' = [n \in DOMAIN PROCESSORS \cup {fn.name} |->
                   IF n = fn.name THEN fn.impl ELSE PROCESSORS[n]]

\* the registry once the module is imported: the six @register decorators
Imported == [n \in BuiltIns |-> n]

\* ---------------------------------------------------------- build_handler
\* a processor spec: a bare name, or a list/tuple of a name and arguments
Bare(name) == [islist |-> FALSE, name |-> name, args |-> <<>>]
Listed(name, args) == [islist |-> TRUE, name |-> name, args |-> args]

\* as Factory, but a name that is not registered is skipped
FactorySkippingUnknown(name, handler, args) ==
  IF name \notin DOMAIN PROCESSORS
  THEN [ok |-> TRUE, error |-> "none", handler |-> handler]
  ELSE IF PROCESSORS[name] = "crop" /\ Len(args) = 0
  THEN [ok |-> FALSE, error |-> "IndexError", handler |-> handler]
  ELSE [ok |-> TRUE, error |-> "none",
        handler |-> <<[impl |-> PROCESSORS[name], args |-> args]>> \o handler]

\* the factory call PROCESSORS[name](handler, args); only crop's factory
\* reads its arguments (width, height = args[0])
Factory(name, handler, args) ==
  IF name \notin DOMAIN PROCESSORS
  THEN [ok |-> FALSE, error |-> "KeyError", handler |-> handler]
  ELSE IF PROCESSORS[name] = "crop" /\ Len(args) = 0
  THEN [ok |-> FALSE, error |-> "IndexError", handler |-> handler]
  ELSE [ok |-> TRUE, error |-> "none",
        handler |-> <<[impl |-> PROCESSORS[name], args |-> args]>> \o handler]

RECURSIVE BuildLoop(_, _)
BuildLoop(parts, handler) ==
  IF parts = <<>>
  THEN [ok |-> TRUE, error |-> "none", handler |-> handler]
  ELSE LET part == Head(parts)
           made == IF part.islist
                   THEN Factory(part.name, handler, part.args)
                   ELSE Factory(part.name, handler, <<>>)
       IN IF made.ok THEN BuildLoop(Tail(parts), made.handler) ELSE made

build_handler(parts) == BuildLoop(parts, <<>>)

always == <<Bare("autorotate"), Bare("preprocess_jpeg"),
            Bare("preprocess_gif"), Bare("preserve_icc_profile")>>

\* ------------------------------------------------------------ render driver
(***************************************************************************)
(* process_image, one step per statement that another call, or a failure,  *)
(* can separate from the next.  Every variable below is a function on the  *)
(* callers; pc is the caller's place in process_image:                     *)
(*   idle    not in a call          check   line 26                        *)
(*   open    lines 29-36            build   line 38                        *)
(*   invoke  line 39               encode  lines 41-42                    *)
(*   delete  line 44                save    line 45                        *)
(*   done    returned               failed  left by an exception           *)
(* storage is the storage backend: a function on the names that exist.     *)
(* events, trace, storage0, prevEvents and repeat record what happened and *)
(* are read by no action.                                                  *)
(***************************************************************************)
VARIABLES storage, pc, file, target, processors, ppoi, force,
          image, context, format, handler, buf, error,
          events, trace, storage0, prevEvents, repeat

VARIABLE cropCase

vars == <<codecKeepsPalette, PROCESSORS, storage, pc, file, target,
          processors, ppoi, force, image, context, format, handler, buf,
          error, events, trace, storage0, prevEvents, repeat, cropCase>>

callVars == <<file, target, processors, ppoi, force>>
workVars == <<image, context, format, handler, buf>>
histVars == <<storage0, prevEvents, repeat>>

Callers == {"A", "B"}
Targets == {"out"}

\* the size of every source image, the thumbnail box and the crop target
SrcSize == <<4, 2>>
Box == <<2, 2>>
CropTo == <<1, 1>>
\* PPOIField's default '0.5x0.5'
DefaultPPOI == <<<<1, 2>>, <<1, 2>>>>

NoImage == [format |-> "None", mode |-> "RGB", size |-> <<0, 0>>, exif |-> -1,
            palette |-> "none", transparency |-> -1, icc |-> "none",
            pixels |-> <<>>]

Decoded(fmt, mode, exif, palette, transparency, icc) ==
  [format |-> fmt, mode |-> mode, size |-> SrcSize, exif |-> exif,
   palette |-> palette, transparency |-> transparency, icc |-> icc,
   pixels |-> <<>>]

\* a source file: its name, whether Image.open can decode it, and what
\* Image.open returns
Jpeg(mode, orientation) ==
  [name |-> "photo.jpg", decodable |-> TRUE,
   image |-> Decoded("JPEG", mode, orientation, "none", -1, "icc")]
Gif == [name |-> "anim.gif", decodable |-> TRUE,
        image |-> Decoded("GIF", "P", -1, "pal", 0, "none")]
Png == [name |-> "shot.png", decodable |-> TRUE,
        image |-> Decoded("PNG", "RGB", -1, "none", -1, "none")]
Broken == [name |-> "broken.jpg", decodable |-> FALSE, image |-> NoImage]

Orientations == {0, 1, 3, 6, 8}
Files == {Jpeg("RGB", o) : o \in Orientations}
           \cup {Jpeg("CMYK", 6), Gif, Png, Broken}

UserSpecs == {Listed("thumbnail", <<Box>>), Listed("crop", <<CropTo>>),
              Bare("boom"), Listed("boom", <<>>)}
SeqsUpTo(S, n) == UNION {[1..k -> S] : k \in 0..n}
Pipelines == SeqsUpTo(UserSpecs, MaxSpecs)

\* functions a caller registers, both named boom
CustomFns == {Fn("boom", "raising"), Fn("boom", "passing")}

\* what the storage holds for a rendition
Encoded(img, fmt, save_kwargs) ==
  [format |-> fmt, image |-> img, options |-> save_kwargs]
NoBytes == Encoded(NoImage, "None", EmptyDict)
\* a rendition written before the behaviour starts
OldBytes == Encoded(NoImage, "PNG", EmptyDict)

Exists(name) == name \in DOMAIN storage
Deleted(name) == [n \in DOMAIN storage \ {name} |-> storage[n]]
Saved(name, content) == SetItem(storage, name, content)
\* the name a backend that does not overwrite picks for a taken name
AvailableName(name) == IF Exists(name) THEN "out_1" ELSE name

Log(p, event) == events' = [events EXCEPT ![p] = Append(@, event)]
Goto(p, place) == pc' = [pc EXCEPT ![p] = place]
Fail(p, err) ==
  /\ pc' = [pc EXCEPT ![p] = "failed"]
  /\ error' = [error EXCEPT ![p] = err]

InCall(p) == pc[p] \notin {"idle", "done", "failed"}

\* a call of process_image(f, target=t, processors=procs, ppoi=pp, force=fo)
Start(p, f, t, procs, pp, fo) ==
  /\ ~InCall(p)
  /\ file' = [file EXCEPT ![p] = f]
  /\ target' = [target EXCEPT ![p] = t]
  /\ processors' = [processors EXCEPT ![p] = procs]
  /\ ppoi' = [ppoi EXCEPT ![p] = pp]
  /\ force' = [force EXCEPT ![p] = fo]
  /\ image' = [image EXCEPT ![p] = NoImage]
  /\ context' = [context EXCEPT ![p] = [ppoi |-> pp, save_kwargs |-> EmptyDict]]
  /\ format' = [format EXCEPT ![p] = "None"]
  /\ handler' = [handler EXCEPT ![p] = <<>>]
  /\ buf' = [buf EXCEPT ![p] = NoBytes]
  /\ error' = [error EXCEPT ![p] = "none"]
  /\ events' = [events EXCEPT ![p] = <<>>]
  /\ trace' = [trace EXCEPT ![p] = <<>>]
  /\ storage0' = [storage0 EXCEPT ![p] = storage]
  /\ prevEvents' = [prevEvents EXCEPT ![p] = events[p]]
  /\ repeat' = [repeat EXCEPT ![p] =
                  /\ pc[p] = "done"
                  /\ <<f, t, procs, pp, fo>>
                       = <<file[p], target[p], processors[p], ppoi[p], force[p]>>]
  /\ Goto(p, "check")
  /\ UNCHANGED <<codecKeepsPalette, PROCESSORS, storage, cropCase>>

\* as Check, but the existence of the target is never consulted
CheckNeverReturns(p) ==
  /\ pc[p] = "check"
  /\ Goto(p, "open")
  /\ UNCHANGED <<codecKeepsPalette, PROCESSORS, storage, callVars, workVars,
                 error, events, trace, histVars, cropCase>>

\* as Check, but force is ignored
CheckIgnoringForce(p) ==
  /\ pc[p] = "check"
  /\ Log(p, "exists")
  /\ IF Exists(target[p]) THEN Goto(p, "done") ELSE Goto(p, "open")
  /\ UNCHANGED <<codecKeepsPalette, PROCESSORS, storage, callVars, workVars,
                 error, trace, histVars, cropCase>>

\* as Check, but the handler is composed before the source is opened
CheckThenBuild(p) ==
  /\ pc[p] = "check"
  /\ IF force[p]
     THEN Goto(p, "build") /\ UNCHANGED events
     ELSE /\ Log(p, "exists")
          /\ IF Exists(target[p]) THEN Goto(p, "done") ELSE Goto(p, "build")
  /\ UNCHANGED <<codecKeepsPalette, PROCESSORS, storage, callVars, workVars,
                 error, trace, histVars, cropCase>>

\* if not force and file.storage.exists(target): return
Check(p) ==
  /\ pc[p] = "check"
  /\ IF force[p]
     THEN Goto(p, "open") /\ UNCHANGED events
     ELSE /\ Log(p, "exists")
          /\ IF Exists(target[p]) THEN Goto(p, "done") ELSE Goto(p, "open")
  /\ UNCHANGED <<codecKeepsPalette, PROCESSORS, storage, callVars, workVars,
                 error, trace, histVars, cropCase>>

\* with file.open('rb') as orig: image = Image.open(orig); context; format
Open(p) ==
  /\ pc[p] = "open"
  /\ Log(p, "decode")
  /\ IF file[p].decodable
     THEN /\ image' = [image EXCEPT ![p] = file[p].image]
          /\ context' = [context EXCEPT ![p] =
                           [ppoi |-> ppoi[p], save_kwargs |-> EmptyDict]]
          /\ format' = [format EXCEPT ![p] = file[p].image.format]
          /\ Goto(p, "build")
          /\ UNCHANGED error
     ELSE /\ Fail(p, "DecodeError")
          /\ UNCHANGED <<image, context, format>>
  /\ UNCHANGED <<codecKeepsPalette, PROCESSORS, storage, callVars, handler,
                 buf, trace, histVars, cropCase>>

\* handler = build_handler(itertools.chain(always, processors))
Build(p) ==
  /\ pc[p] = "build"
  /\ Log(p, "build")
  /\ LET built == build_handler(always \o processors[p])
     IN IF built.ok
        THEN /\ handler' = [handler EXCEPT ![p] = built.handler]
             /\ Goto(p, "invoke")
             /\ UNCHANGED error
        ELSE /\ Fail(p, built.error)
             /\ UNCHANGED handler
  /\ UNCHANGED <<codecKeepsPalette, PROCESSORS, storage, callVars, image,
                 context, format, buf, trace, histVars, cropCase>>

\* image, context = handler(image, context)
Invoke(p) ==
  /\ pc[p] = "invoke"
  /\ Log(p, "invoke")
  /\ LET r == CallHandler(handler[p], image[p], context[p], <<>>)
     IN /\ trace' = [trace EXCEPT ![p] = r.trace]
        /\ IF r.ok
           THEN /\ image' = [image EXCEPT ![p] = r.image]
                /\ context' = [context EXCEPT ![p] = r.context]
                /\ Goto(p, "encode")
                /\ UNCHANGED error
           ELSE /\ Fail(p, r.error)
                /\ UNCHANGED <<image, context>>
  /\ UNCHANGED <<codecKeepsPalette, PROCESSORS, storage, callVars, format,
                 handler, buf, histVars, cropCase>>

\* as Encode, but the target is deleted before the image is encoded
EncodeAfterDelete(p) ==
  /\ pc[p] = "encode"
  /\ Log(p, "encode")
  /\ storage' = Deleted(target[p])
  /\ \E encodes \in BOOLEAN :
       IF encodes
       THEN /\ buf' = [buf EXCEPT ![p] =
                         Encoded(image[p], format[p], context[p].save_kwargs)]
            /\ Goto(p, "delete")
            /\ UNCHANGED error
       ELSE /\ Fail(p, "EncodeError")
            /\ UNCHANGED buf
  /\ UNCHANGED <<codecKeepsPalette, PROCESSORS, callVars, image,
                 context, format, handler, trace, histVars, cropCase>>

\* image.save(buf, format=format, **context.save_kwargs); the encoder may
\* refuse the image
Encode(p) ==
  /\ pc[p] = "encode"
  /\ Log(p, "encode")
  /\ \E encodes \in BOOLEAN :
       IF encodes
       THEN /\ buf' = [buf EXCEPT ![p] =
                         Encoded(image[p], format[p], context[p].save_kwargs)]
            /\ Goto(p, "delete")
            /\ UNCHANGED error
       ELSE /\ Fail(p, "EncodeError")
            /\ UNCHANGED buf
  /\ UNCHANGED <<codecKeepsPalette, PROCESSORS, storage, callVars, image,
                 context, format, handler, trace, histVars, cropCase>>

\* file.storage.delete(target)
Delete(p) ==
  /\ pc[p] = "delete"
  /\ Log(p, "delete")
  /\ storage' = Deleted(target[p])
  /\ Goto(p, "save")
  /\ UNCHANGED <<codecKeepsPalette, PROCESSORS, callVars, workVars, error,
                 trace, histVars, cropCase>>

\* as Save, but the buffer is read from its end: an empty file is stored
SaveUnrewound(p) ==
  /\ pc[p] = "save"
  /\ Log(p, "save")
  /\ storage' = Saved(target[p], NoBytes)
  /\ Goto(p, "done")
  /\ UNCHANGED <<codecKeepsPalette, PROCESSORS, callVars, workVars, error,
                 trace, histVars, cropCase>>

\* file.storage.save(target, ContentFile(buf.getvalue())).  The name is free
\* after the delete of the same call; when another call has stored the
\* target in between, the storage backend either overwrites it or keeps it
\* and stores the content under another name.
Save(p) ==
  /\ pc[p] = "save"
  /\ Log(p, "save")
  /\ \E overwrites \in BOOLEAN :
       storage' = IF Exists(target[p]) /\ ~overwrites
                  THEN Saved(AvailableName(target[p]), buf[p])
                  ELSE Saved(target[p], buf[p])
  /\ Goto(p, "done")
  /\ UNCHANGED <<codecKeepsPalette, PROCESSORS, callVars, workVars, error,
                 trace, histVars, cropCase>>

\* @register / register(fn); a single-threaded program registers between
\* calls, not inside one
Register(fn) ==
  /\ \A p \in Callers : ~InCall(p)
  /\ register(fn)
  /\ UNCHANGED <<codecKeepsPalette, storage, pc, callVars, workVars, error,
                 events, trace, histVars, cropCase>>

\* ----------------------------------------------------------- specifications
\* cropCase: one application of the crop processor to an image of a given
\* size; box is the rectangle image.crop received, out the size delegated
NoBox == <<0, 0, 0, 0>>
CropCase(size, to, pp) ==
  [done |-> FALSE, size |-> size, target |-> to, ppoi |-> pp, box |-> NoBox,
   out |-> <<0, 0>>]
NoCrop == CropCase(SrcSize, CropTo, DefaultPPOI)

InitCalls ==
  /\ pc = [p \in Callers |-> "idle"]
  /\ file = [p \in Callers |-> Broken]
  /\ target = [p \in Callers |-> "out"]
  /\ processors = [p \in Callers |-> <<>>]
  /\ ppoi = [p \in Callers |-> DefaultPPOI]
  /\ force = [p \in Callers |-> FALSE]
  /\ image = [p \in Callers |-> NoImage]
  /\ context = [p \in Callers |-> [ppoi |-> DefaultPPOI, save_kwargs |-> EmptyDict]]
  /\ format = [p \in Callers |-> "None"]
  /\ handler = [p \in Callers |-> <<>>]
  /\ buf = [p \in Callers |-> NoBytes]
  /\ error = [p \in Callers |-> "none"]
  /\ events = [p \in Callers |-> <<>>]
  /\ trace = [p \in Callers |-> <<>>]
  /\ storage0 = [p \in Callers |-> storage]
  /\ prevEvents = [p \in Callers |-> <<>>]
  /\ repeat = [p \in Callers |-> FALSE]

\* the module is imported; the target is absent or holds an older rendition
Init ==
  /\ codecKeepsPalette \in BOOLEAN
  /\ PROCESSORS = Imported
  /\ storage \in {[n \in {} |-> OldBytes], [n \in Targets |-> OldBytes]}
  /\ InitCalls
  /\ cropCase = NoCrop

Steps(p) ==
  \/ Check(p) \/ Open(p) \/ Build(p) \/ Invoke(p)
  \/ Encode(p) \/ Delete(p) \/ Save(p)

\* one call of process_image, after any registrations
Next ==
  \/ \E f \in Files, t \in Targets, procs \in Pipelines, fo \in BOOLEAN :
       pc["A"] = "idle" /\ Start("A", f, t, procs, DefaultPPOI, fo)
  \/ Steps("A")
  \/ \E fn \in CustomFns : Register(fn)

Spec == Init /\ [][Next]_vars

\* repeated calls of process_image by one caller, over a few sources and
\* pipelines
RepeatFiles == {Jpeg("RGB", 6), Gif, Broken}
RepeatPipelines == {<<>>, <<Listed("crop", <<CropTo>>)>>, <<Bare("boom")>>}

RepeatNext ==
  \/ \E f \in RepeatFiles, t \in Targets, procs \in RepeatPipelines,
        fo \in BOOLEAN :
       Start("A", f, t, procs, DefaultPPOI, fo)
  \/ Steps("A")
  \/ \E fn \in CustomFns : Register(fn)

RepeatSpec == Init /\ [][RepeatNext]_vars

\* two callers rendering the same target at once: the statements of their
\* calls interleave, each storage operation is atomic
ConcFiles == {Png, Gif}
ConcPipelines == {<<>>, <<Listed("crop", <<CropTo>>)>>}

ConcNext ==
  \E p \in Callers :
    \/ \E f \in ConcFiles, t \in Targets, procs \in ConcPipelines,
          fo \in BOOLEAN :
         pc[p] = "idle" /\ Start(p, f, t, procs, DefaultPPOI, fo)
    \/ Steps(p)

ConcSpec == Init /\ [][ConcNext]_vars

\* the crop processor alone, over a grid of sizes and the worked examples
CropSizes == (Dims \X Dims) \cup {<<1000, 500>>}
CropTargets == (Dims \X Dims) \cup {<<200, 200>>}
PPOIs == Fractions \X Fractions

CropInit ==
  /\ codecKeepsPalette = TRUE
  /\ PROCESSORS = Imported
  /\ storage = [n \in {} |-> OldBytes]
  /\ InitCalls
  /\ cropCase \in {CropCase(size, to, pp) :
                     size \in CropSizes, to \in CropTargets, pp \in PPOIs}

\* processor(image, context) of crop(get_image, [target]) with the innermost
\* handler as get_image
ApplyCrop ==
  /\ ~cropCase.done
  /\ LET img == [NoImage EXCEPT !.size = cropCase.size]
         ctx == [ppoi |-> cropCase.ppoi, save_kwargs |-> EmptyDict]
         r == crop(<<>>, <<cropCase.target>>, img, ctx, <<>>)
     IN cropCase' = [cropCase EXCEPT !.done = TRUE,
                                     !.box = r.image.pixels[1].arg,
                                     !.out = r.image.size]
  /\ UNCHANGED <<codecKeepsPalette, PROCESSORS, storage, pc, callVars,
                 workVars, error, events, trace, histVars>>

CropNext == ApplyCrop

CropSpec == CropInit /\ [][CropNext]_vars

\* ------------------------------------------------------------------ claims

\* The crop rectangle as the specification's steps 1-4 word it.
Round(num, den) == (2 * num + den) \div (2 * den)
ShiftInto(lo, len, limit) ==
  IF lo < 0 THEN <<0, len>>
  ELSE IF lo + len > limit THEN <<limit - len, limit>>
  ELSE <<lo, lo + len>>
SpecCropRect(W, H, w, h, x, y) ==
  LET focus_x == (x[1] * W) \div x[2]
      focus_y == (y[1] * H) \div y[2]
  IN IF W * h >= w * H
     THEN LET crop_width == Round(w * H, h)
              lr == ShiftInto(focus_x - crop_width \div 2, crop_width, W)
          IN <<lr[1], 0, lr[2], H>>
     ELSE LET crop_height == Round(W * h, w)
              tb == ShiftInto(focus_y - crop_height \div 2, crop_height, H)
          IN <<0, tb[1], W, tb[2]>>

C5_ClampShifts ==
  cropCase.done =>
    LET b == crop_box(cropCase.size, cropCase.target, cropCase.ppoi)
        left == cropCase.box[1]
        top == cropCase.box[2]
        right == cropCase.box[3]
        bottom == cropCase.box[4]
    IN /\ 0 <= left /\ right <= cropCase.size[1]
       /\ 0 <= top /\ bottom <= cropCase.size[2]
       /\ left <= right /\ top <= bottom
       /\ right - left = b.orig_crop_width
       /\ bottom - top = b.orig_crop_height
       /\ ( /\ cropCase.size = <<1000, 500>>
            /\ cropCase.target = <<200, 200>>
            /\ cropCase.ppoi = <<<<1, 100>>, <<2, 4>>>>
            => left = 0 /\ right = 500 )

C5_Witness ==
  /\ cropCase.done
  /\ cropCase.size = <<1000, 500>>
  /\ cropCase.target = <<200, 200>>
  /\ cropCase.ppoi = <<<<1, 100>>, <<2, 4>>>>
  /\ cropCase.box = <<0, 0, 500, 500>>

\* ----------------------------------------------- claims on the render driver
Has(seq, e) == \E i \in DOMAIN seq : seq[i] = e
Count(seq, e) == Cardinality({i \in DOMAIN seq : seq[i] = e})
Work == {"decode", "invoke", "encode", "delete", "save"}
WorkOf(seq) == SelectSeq(seq, LAMBDA e : e \in Work)
FullRun == <<"decode", "build", "invoke", "encode", "delete", "save">>

\* the chain process_image hands to build_handler, and the processors it
\* names
Chain(p) == always \o processors[p]
Declared(p) == [i \in 1..Len(Chain(p)) |-> PROCESSORS[Chain(p)[i].name]]
Entered(p) == [i \in 1..Len(trace[p]) |-> trace[p][i].proc]
\* the handler has been invoked and has returned
Returned(p) == pc[p] \in {"encode", "delete", "save"}
\* some spec of the call names a processor that is not registered
Unknown(p) == \E i \in 1..Len(Chain(p)) : Chain(p)[i].name \notin DOMAIN PROCESSORS

\* C1: invoking the handler build_handler composed from [p1, ..., pn] runs
\* the processors in the declared order: p1 receives the handler's input
\* image, and pn's output reaches the innermost handler.
C1_DeclaredOrder ==
  \A p \in Callers :
    Returned(p) =>
      /\ Entered(p) = Declared(p) \o <<"handler">>
      /\ trace[p][1].image = file[p].image
      /\ trace[p][Len(trace[p])].image.pixels = image[p].pixels

\* C2: a call of process_image that failed in decoding, in a processor or in
\* encoding has called neither storage.delete nor storage.save, and the
\* target exists and holds exactly what it did before the call.
C2_FailureLeavesTarget ==
  \A p \in Callers :
    pc[p] = "failed" =>
      /\ error[p] \in {"DecodeError", "KeyError", "IndexError",
                       "ProcessingError", "EncodeError"}
      /\ ~Has(events[p], "delete")
      /\ ~Has(events[p], "save")
      /\ storage = storage0[p]

C2_Witness ==
  /\ pc["A"] = "failed"
  /\ error["A"] = "EncodeError"
  /\ force["A"]
  /\ Exists(target["A"])
  /\ storage[target["A"]] = OldBytes

\* C3: with force=false a call that finds the target existing returns
\* without decoding, building, invoking, encoding, deleting or saving and
\* changes nothing; so two calls in sequence with identical inputs and
\* force=false on an absent target do each piece of work once in total.
C3_RepeatIsNoOp ==
  \A p \in Callers :
    /\ ( pc[p] = "done" /\ ~force[p] /\ target[p] \in DOMAIN storage0[p] =>
           /\ events[p] = <<"exists">>
           /\ storage = storage0[p]
           /\ trace[p] = <<>>
           /\ handler[p] = <<>>
           /\ image[p] = NoImage
           /\ buf[p] = NoBytes )
    /\ ( repeat[p] /\ prevEvents[p] = <<"exists">> \o FullRun =>
           /\ pc[p] \in {"check", "done"}
           /\ \A e \in Work \cup {"build"} :
                Count(prevEvents[p] \o events[p], e) = 1 )

C3_Witness ==
  /\ pc["A"] = "done"
  /\ repeat["A"]
  /\ prevEvents["A"] = <<"exists">> \o FullRun
  /\ events["A"] = <<"exists">>
  /\ processors["A"] = <<Listed("crop", <<CropTo>>)>>

\* C6: a call whose spec list names an unregistered processor never gets
\* past composing the handler: it fails there with the lookup error (unless
\* it already returned at the existence check or failed to decode), no
\* processor has been run, and storage.delete and storage.save are not
\* called.
C6_UnknownFailsBuild ==
  \A p \in Callers :
    /\ ( Unknown(p) /\ pc[p] # "idle" =>
           /\ pc[p] \notin {"invoke", "encode", "delete", "save"}
           /\ trace[p] = <<>>
           /\ ~Has(events[p], "invoke")
           /\ ~Has(events[p], "delete")
           /\ ~Has(events[p], "save")
           /\ storage = storage0[p]
           /\ (pc[p] = "done" => events[p] = <<"exists">>)
           /\ (pc[p] = "failed" => error[p] \in {"KeyError", "DecodeError"})
           /\ (Has(events[p], "build") =>
                 pc[p] = "failed" /\ error[p] = "KeyError") )
    /\ ( pc[p] = "failed" /\ error[p] = "KeyError" =>
           /\ trace[p] = <<>>
           /\ handler[p] = <<>>
           /\ storage = storage0[p] )

C6_Witness ==
  /\ pc["A"] = "failed"
  /\ error["A"] = "KeyError"
  /\ processors["A"] = <<Listed("crop", <<CropTo>>), Bare("boom")>>
  /\ "boom" \notin DOMAIN PROCESSORS
  /\ force["A"]
  /\ Exists(target["A"])

\* C7: the image process_image encodes for a GIF source has the palette of
\* the decoded source, whatever the caller's processor list is.
C7_GifPaletteKept ==
  \A p \in Callers :
    pc[p] \in {"delete", "save"} /\ file[p].image.format = "GIF" =>
      buf[p].image.palette = file[p].image.palette

\* C8: autorotate is the first processor to receive the decoded source, and
\* every later processor receives the image rotated as tag 274 says (3: 180,
\* 6: 270, 8: 90), or unrotated when the tag is absent or 1.
Rotation(orientation) ==
  CASE orientation = 3 -> 180 [] orientation = 6 -> 270
    [] orientation = 8 -> 90 [] OTHER -> 0
RotatedFirst(img, rotation) ==
  IF rotation = 0
  THEN \A i \in DOMAIN img.pixels : img.pixels[i].op # "transpose"
  ELSE /\ img.pixels # <<>>
       /\ img.pixels[1] = PixelOp("transpose", <<rotation>>)
C8_AutorotateFirst ==
  \A p \in Callers :
    Returned(p) =>
      /\ trace[p][1].proc = "autorotate"
      /\ trace[p][1].image = file[p].image
      /\ \A i \in 2..Len(trace[p]) :
           RotatedFirst(trace[p][i].image, Rotation(file[p].image.exif))

\* C9: no registered name is ever removed, and the factory a registered name
\* resolves to never changes.
C9_AppendOnly ==
  [][\A n \in DOMAIN PROCESSORS :
       n \in DOMAIN PROCESSORS' /\ PROCESSORS'[n] = PROCESSORS[n]]_vars

\* C10: with force=true the existence of the target is never consulted; a
\* call that succeeds decodes, invokes, encodes, deletes and saves once
\* each, in that order, does not touch the storage before the image is
\* encoded, and leaves the newly encoded bytes at the target whether or not
\* it existed; with force=false and an absent target the same follows the
\* existence check.
C10_ForcedRun ==
  \A p \in Callers :
    /\ (force[p] => ~Has(events[p], "exists"))
    /\ ( pc[p] \in {"check", "open", "build", "invoke", "encode"} =>
           /\ storage = storage0[p]
           /\ ~Has(events[p], "delete")
           /\ ~Has(events[p], "save") )
    /\ ( pc[p] = "done" /\ (force[p] \/ target[p] \notin DOMAIN storage0[p]) =>
           /\ WorkOf(events[p]) = <<"decode", "invoke", "encode", "delete", "save">>
           /\ events[p] = (IF force[p] THEN <<>> ELSE <<"exists">>) \o FullRun
           /\ buf[p] = Encoded(image[p], format[p], context[p].save_kwargs)
           /\ Exists(target[p])
           /\ storage[target[p]] = buf[p] )

C10_Witness ==
  /\ pc["A"] = "done"
  /\ force["A"]
  /\ target["A"] \in DOMAIN storage0["A"]
  /\ storage0["A"][target["A"]] = OldBytes
  /\ storage[target["A"]] = buf["A"]
  /\ buf["A"].image.pixels # <<>>

\* C11: a successful call on a JPEG source encodes with quality=90 and
\* progressive=true and an RGB image, whatever the caller's processor list
\* is; for any other source the two options are not set.
C11_JpegOptions ==
  \A p \in Callers :
    pc[p] \in {"delete", "save"} =>
      IF file[p].image.format = "JPEG"
      THEN /\ "quality" \in DOMAIN buf[p].options
           /\ buf[p].options["quality"] = 90
           /\ "progressive" \in DOMAIN buf[p].options
           /\ buf[p].options["progressive"] = TRUE
           /\ buf[p].image.mode = "RGB"
      ELSE /\ "quality" \notin DOMAIN buf[p].options
           /\ "progressive" \notin DOMAIN buf[p].options

\* C12: every built-in processor calls the handler it wraps exactly once, on
\* every branch: when a chain of built-ins returns, each of its stages has
\* been entered exactly once, in nesting order, and the innermost handler
\* exactly once.
OnlyBuiltIns(p) == \A i \in DOMAIN handler[p] : handler[p][i].impl \in BuiltIns
Stages(p) == [i \in 1..Len(handler[p]) |-> handler[p][i].impl]
C12_DelegatesOnce ==
  \A p \in Callers :
    Returned(p) /\ OnlyBuiltIns(p) =>
      /\ Entered(p) = Stages(p) \o <<"handler">>
      /\ Count(Entered(p), "handler") = 1
      /\ Len(trace[p]) = Len(always) + Len(processors[p]) + 1

C12_Witness ==
  /\ Returned("A")
  /\ OnlyBuiltIns("A")
  /\ file["A"] = Jpeg("RGB", 0)
  /\ processors["A"] = <<Listed("thumbnail", <<Box>>), Listed("crop", <<CropTo>>)>>
  /\ Len(trace["A"]) = 7

\* C13 as claimed: when a spec names an unregistered processor the lookup
\* fails before the source has been opened or decoded.
C13_BuildBeforeDecode ==
  \A p \in Callers :
    pc[p] = "failed" /\ error[p] = "KeyError" => ~Has(events[p], "decode")

\* C13: in process_image the source is opened and decoded first and the
\* handler composed second: the lookup failure of an unregistered name is
\* raised after the decode, with the decoded image in hand, and before any
\* processor runs or the storage is changed.
Before(seq, a, b) ==
  \A j \in DOMAIN seq : seq[j] = b => \E i \in 1..(j - 1) : seq[i] = a
C13_DecodeBeforeBuild ==
  \A p \in Callers :
    /\ Before(events[p], "decode", "build")
    /\ ( pc[p] = "failed" /\ error[p] = "KeyError" =>
           /\ events[p] = (IF force[p] THEN <<>> ELSE <<"exists">>)
                            \o <<"decode", "build">>
           /\ image[p] = file[p].image
           /\ file[p].decodable
           /\ trace[p] = <<>>
           /\ storage = storage0[p] )

C13_Witness ==
  /\ pc["A"] = "failed"
  /\ error["A"] = "KeyError"
  /\ events["A"] = <<"exists", "decode", "build">>
  /\ image["A"] = Gif.image
  /\ processors["A"] = <<Bare("boom")>>

\* ------------------------------------------- further claims on the crop box

\* C14: the clamped crop rectangle contains the focus coordinate:
\* left <= trunc(x*W) <= right and top <= trunc(y*H) <= bottom, for every
\* source size, target size and PPOI.
C14_FocusInside ==
  cropCase.done =>
    LET focus_x == (cropCase.size[1] * cropCase.ppoi[1][1]) \div cropCase.ppoi[1][2]
        focus_y == (cropCase.size[2] * cropCase.ppoi[2][1]) \div cropCase.ppoi[2][2]
    IN /\ cropCase.box[1] <= focus_x /\ focus_x <= cropCase.box[3]
       /\ cropCase.box[2] <= focus_y /\ focus_y <= cropCase.box[4]

\* the window around a focus on the right edge is moved back inside and
\* still ends at the focus
C14_Witness ==
  /\ cropCase.done
  /\ cropCase.size = <<1000, 500>>
  /\ cropCase.target = <<200, 200>>
  /\ cropCase.ppoi = <<<<4, 4>>, <<2, 4>>>>
  /\ cropCase.box = <<500, 0, 1000, 500>>

\* C15: the crop rectangle is non-empty, right - left >= 1 and
\* bottom - top >= 1: the rounded crop width or height is never 0.
C15_NonEmpty ==
  cropCase.done =>
    /\ cropCase.box[3] - cropCase.box[1] >= 1
    /\ cropCase.box[4] - cropCase.box[2] >= 1

\* ------------------------------------------------ claims on concurrent calls

\* the target does not exist when the first call starts: no call has seen
\* the older rendition
InitiallyAbsent ==
  \A p \in Callers :
    ~( /\ target[p] \in DOMAIN storage0[p]
       /\ storage0[p][target[p]] = OldBytes )

\* C16: two calls with force=false on the same, initially absent target,
\* their steps interleaved arbitrarily: when both have completed without
\* error the target exists and holds the bytes one of them saved.
C16_TargetHeld ==
  /\ \A p \in Callers : pc[p] = "done" /\ ~force[p]
  /\ target["A"] = target["B"]
  /\ InitiallyAbsent
  => /\ Exists(target["A"])
     /\ \E p \in Callers :
          /\ Has(events[p], "save")
          /\ storage[target["A"]] = buf[p]

\* both calls found the target absent and both saved; the second save was
\* stored over the first
C16_Witness ==
  /\ \A p \in Callers :
       /\ pc[p] = "done" /\ ~force[p]
       /\ events[p] = <<"exists", "decode", "build", "invoke", "encode",
                        "delete", "save">>
  /\ InitiallyAbsent
  /\ buf["A"] # buf["B"]
  /\ storage = [n \in {"out"} |-> buf["A"]]

====
